---- MODULE Spec2Model ----
(***************************************************************************)
(* Field transforms of Firestore/core/src/model/transform_operation.cc:    *)
(* ServerTimestampTransform, ArrayTransform (union / remove) and           *)
(* NumericIncrementTransform, with the equality, hashing and the three     *)
(* application operations of TransformOperation.                           *)
(*                                                                         *)
(* The field value type (google_firestore_v1_Value) is defined outside     *)
(* this file.  It is modelled as a record [type, n, elems]: `type' is      *)
(* the tag, `n' the scalar payload, `elems' the nested values.  Two values *)
(* are equal when tag and payload are; a hash is a function of the value.  *)
(* Widths are scaled down: int64_t is IntBits wide, size_t is SizeBits     *)
(* wide, a double has MantBits bits of mantissa, a largest exponent MaxExp *)
(* and is counted in halves (n = 5 is 2.5).                                *)
(***************************************************************************)
EXTENDS Integers, Sequences, FiniteSets

\* ---------------------------------------------------------------- bounds
IntBits == 5
SizeBits == 8
MantBits == 3
MaxExp == 4
MaxLen == 3
MaxPasses == 2

\* ------------------------------------------------------------- the value type
V(t, n, e) ==
    [type |-> t, n |-> n, elems |-> e]

nullopt ==
    V("nullopt", 0, <<>>)

Null ==
    V("Null", 0, <<>>)

FromInteger(i) ==
    V("Integer", i, <<>>)

FromDouble(h) ==
    V("Double", h, <<>>)

FromArray(s) ==
    V("Array", 0, s)

FromServerTimestamp(local_write_time, previous_value) ==
    V("ServerTimestamp", local_write_time,
      IF previous_value = nullopt THEN <<>> ELSE <<previous_value>>)

is_number(v) ==
    v.type \in {"Integer", "Double"}

ValueEquals(a, b) ==
    a.type = b.type /\ a.n = b.n /\ a.elems = b.elems

TypeCode(t) ==
    CASE t = "Null" -> 1
      [] t = "Boolean" -> 2
      [] t = "Integer" -> 3
      [] t = "Double" -> 4
      [] t = "Timestamp" -> 5
      [] t = "ServerTimestamp" -> 6
      [] t = "String" -> 7
      [] t = "Array" -> 8
      [] OTHER -> 0

RECURSIVE ValueHash(_)
ValueHash(v) ==
    LET RECURSIVE Mix(_, _)
        Mix(h, s) ==
            IF s = <<>> THEN h
            ELSE Mix((31 * h + ValueHash(Head(s))) % (2 ^ SizeBits), Tail(s))
    IN Mix((TypeCode(v.type) * 17 + v.n) % (2 ^ SizeBits), v.elems)

\* ------------------------------------------------------------- the numbers
LONG_MAX ==
    2 ^ (IntBits - 1) - 1

LONG_MIN ==
    -(2 ^ (IntBits - 1))

\* The value an int64_t holds after a computation whose exact result is s.
ToInt64(s) ==
    ((s + 2 ^ (IntBits - 1)) % (2 ^ IntBits)) - 2 ^ (IntBits - 1)

Abs(x) ==
    IF x < 0 THEN -x ELSE x

MaxFiniteH ==
    (2 ^ MantBits - 1) * 2 ^ MaxExp

DInfH ==
    2 ^ MantBits * 2 ^ MaxExp

DNaNH ==
    DInfH + 1

\* The exponent of the unit in the last place of magnitude m.
RECURSIVE UlpExp(_, _)
UlpExp(m, e) ==
    IF m < 2 ^ (MantBits + e) THEN e ELSE UlpExp(m, e + 1)

\* Round-to-nearest, ties-to-even, of the exact value h (in halves);
\* a magnitude above the largest finite double becomes an infinity.
FRound(h) ==
    LET m == Abs(h)
        e == UlpExp(m, 0)
        q == m \div (2 ^ e)
        r == m % (2 ^ e)
        up == (2 * r > 2 ^ e) \/ (2 * r = 2 ^ e /\ q % 2 = 1)
        v == (IF up THEN q + 1 ELSE q) * 2 ^ e
        w == IF v > MaxFiniteH THEN DInfH ELSE v
    IN IF h < 0 THEN -w ELSE w

\* IEEE addition of two doubles.
FAdd(a, b) ==
    IF a = DNaNH \/ b = DNaNH THEN DNaNH
    ELSE IF Abs(a) = DInfH /\ Abs(b) = DInfH THEN (IF a = b THEN a ELSE DNaNH)
    ELSE IF Abs(a) = DInfH THEN a
    ELSE IF Abs(b) = DInfH THEN b
    ELSE FRound(a + b)

\* static_cast<double>(int64_t)
IntToDouble(i) ==
    FRound(2 * i)

\* ------------------------------------------------------------- TransformOperation
\* A TransformOperation is its rep_: the Rep's type(), and the payload of the
\* subclass (operand_ of an increment, elements_ of an array transform).
\* type "Empty" is the shell whose rep_ is nullptr.
Rep(t, operand, elements) ==
    [type |-> t, operand |-> operand, elements |-> elements]

EmptyShell ==
    Rep("Empty", nullopt, <<>>)

ServerTimestampTransform ==
    Rep("ServerTimestamp", nullopt, <<>>)

IsArrayTransform(type) ==
    type = "ArrayUnion" \/ type = "ArrayRemove"

ArrayTransform(type, elements) ==
    Rep(type, nullopt, elements)

NumericIncrementTransform(operand) ==
    Rep("Increment", operand, <<>>)

\* The value every failed HARD_ASSERT / HARD_FAIL ends the call with.
HardFail ==
    V("HARD_FAIL", 0, <<>>)

\* ------------------------------------------------------------- ServerTimestampTransform
ServerTimestampTransform_ApplyToLocalView(self, previous_value, local_write_time) ==
    FromServerTimestamp(local_write_time, previous_value)

ServerTimestampTransform_ApplyToRemoteDocument(self, previous_value, transform_result) ==
    transform_result

ServerTimestampTransform_ComputeBaseValue(self, previous_value) ==
    nullopt

ServerTimestampTransform_Equals(self, other) ==
    other.type = "ServerTimestamp"

HashServerTimestamp ==
    37

ServerTimestampTransform_Hash(self) ==
    HashServerTimestamp

\* ------------------------------------------------------------- ArrayTransform
Coercedgoogle_firestore_v1_ValuesArray_AnyPresent(value) ==
    IF value = nullopt THEN <<>>
    ELSE IF value.type = "Array" THEN value.elems
    ELSE <<value>>

Coercedgoogle_firestore_v1_ValuesArray(value) ==
    IF value # nullopt /\ value.type = "Array" THEN value.elems ELSE <<>>

\* absl::c_find(result, element): the first position holding element,
\* Len(result) + 1 for result.end().
RECURSIVE c_find(_, _, _)
c_find(result, element, i) ==
    IF i > Len(result) THEN Len(result) + 1
    ELSE IF ValueEquals(result[i], element) THEN i
    ELSE c_find(result, element, i + 1)

\* result.erase(result.cbegin() + i), with i counted from 1.
Erase(result, i) ==
    SubSeq(result, 1, i - 1) \o SubSeq(result, i + 1, Len(result))

\* The body of the loop for Type::ArrayUnion.
UnionStep_AlwaysAppend(result, element) ==
    Append(result, element)

UnionStep(result, element) ==
    IF c_find(result, element, 1) = Len(result) + 1
    THEN Append(result, element)
    ELSE result

\* The inner loop for Type::ArrayRemove, from position i (counted from 1).
RECURSIVE RemoveLoop_SkipAfterErase(_, _, _)
RemoveLoop_SkipAfterErase(result, element, i) ==
    IF i > Len(result) THEN result
    ELSE IF ValueEquals(element, result[i])
         THEN RemoveLoop_SkipAfterErase(Erase(result, i), element, i + 1)
         ELSE RemoveLoop_SkipAfterErase(result, element, i + 1)

RECURSIVE RemoveLoop(_, _, _)
RemoveLoop(result, element, i) ==
    IF i > Len(result) THEN result
    ELSE IF ValueEquals(element, result[i])
         THEN RemoveLoop(Erase(result, i), element, i)
         ELSE RemoveLoop(result, element, i + 1)

RemoveStep_FirstOnly(result, element) ==
    LET pos == c_find(result, element, 1)
    IN IF pos = Len(result) + 1 THEN result ELSE Erase(result, pos)

RemoveStep(result, element) ==
    RemoveLoop(result, element, 1)

\* The loop over elements_, from the candidate at position k.
RECURSIVE ApplyLoop(_, _, _, _)
ApplyLoop(type_, elements_, result, k) ==
    IF k > Len(elements_) THEN result
    ELSE ApplyLoop(type_, elements_,
                   IF type_ = "ArrayUnion"
                   THEN UnionStep(result, elements_[k])
                   ELSE RemoveStep(result, elements_[k]),
                   k + 1)

ArrayTransform_Apply(self, previous_value) ==
    FromArray(ApplyLoop(self.type, self.elements,
                        Coercedgoogle_firestore_v1_ValuesArray(previous_value), 1))

ArrayTransform_ApplyToLocalView(self, previous_value, local_write_time) ==
    ArrayTransform_Apply(self, previous_value)

ArrayTransform_ApplyToRemoteDocument(self, previous_value, transform_result) ==
    ArrayTransform_Apply(self, previous_value)

ArrayTransform_ComputeBaseValue(self, previous_value) ==
    nullopt

\* The loop of Equals, from position i (counted from 1).
RECURSIVE ElementsEqualFrom(_, _, _)
ElementsEqualFrom(mine, theirs, i) ==
    IF i > Len(mine) THEN TRUE
    ELSE IF ~ValueEquals(theirs[i], mine[i]) THEN FALSE
    ELSE ElementsEqualFrom(mine, theirs, i + 1)

ArrayTransform_Equals_NoTypeCheck(self, other) ==
    IF ~IsArrayTransform(other.type) THEN FALSE
    ELSE IF Len(other.elements) # Len(self.elements) THEN FALSE
    ELSE ElementsEqualFrom(self.elements, other.elements, 1)

ArrayTransform_Equals(self, other) ==
    IF other.type # self.type THEN FALSE
    ELSE IF Len(other.elements) # Len(self.elements) THEN FALSE
    ELSE ElementsEqualFrom(self.elements, other.elements, 1)

HashSeed ==
    37

HashMultiplier ==
    31

HashArrayUnion ==
    1231

HashArrayRemove ==
    1237

\* size_t arithmetic.
ToSizeT(x) ==
    x % (2 ^ SizeBits)

RECURSIVE HashLoop(_, _, _)
HashLoop(result, elements_, k) ==
    IF k > Len(elements_) THEN result
    ELSE HashLoop(ToSizeT(HashMultiplier * result + ValueHash(elements_[k])),
                  elements_, k + 1)

ArrayTransform_Hash(self) ==
    HashLoop(ToSizeT(HashMultiplier * HashSeed
                     + (IF self.type = "ArrayUnion" THEN HashArrayUnion
                        ELSE HashArrayRemove)),
             self.elements, 1)

\* ------------------------------------------------------------- NumericIncrementTransform
SafeIncrement_NoLowerCheck(x, y) ==
    IF x > 0 /\ y > LONG_MAX - x THEN LONG_MAX
    ELSE ToInt64(x + y)

\* Saturating addition of two int64_t.
SafeIncrement(x, y) ==
    IF x > 0 /\ y > LONG_MAX - x THEN LONG_MAX
    ELSE IF x < 0 /\ y < LONG_MIN - x THEN LONG_MIN
    ELSE ToInt64(x + y)

\* AsDouble ends in HARD_FAIL for a value that is no number.
AsDoubleFails(value) ==
    value.type # "Double" /\ value.type # "Integer"

AsDouble(value) ==
    IF value.type = "Double" THEN value.n
    ELSE IntToDouble(value.n)

NumericIncrementTransform_ComputeBaseValue_AnyPresent(self, previous_value) ==
    IF previous_value # nullopt THEN previous_value ELSE FromInteger(0)

NumericIncrementTransform_ComputeBaseValue(self, previous_value) ==
    IF previous_value # nullopt /\ is_number(previous_value)
    THEN previous_value
    ELSE FromInteger(0)

\* integer_value() read from a value: a double read as an integer is truncated.
IntegerValueOf(v) ==
    IF v.type = "Integer" THEN v.n ELSE ToInt64(v.n \div 2)

NumericIncrementTransform_ApplyToLocalView_EitherInteger(self, previous_value, local_write_time) ==
    LET base_value == NumericIncrementTransform_ComputeBaseValue(self, previous_value)
    IN IF base_value.type = "Integer" \/ self.operand.type = "Integer"
       THEN FromInteger(SafeIncrement(IntegerValueOf(base_value),
                                      IntegerValueOf(self.operand)))
       ELSE FromDouble(FAdd(AsDouble(base_value), AsDouble(self.operand)))

NumericIncrementTransform_ApplyToLocalView(self, previous_value, local_write_time) ==
    LET base_value == NumericIncrementTransform_ComputeBaseValue(self, previous_value)
    IN IF base_value # nullopt /\ base_value.type = "Integer"
          /\ self.operand.type = "Integer"
       THEN FromInteger(SafeIncrement(base_value.n, self.operand.n))
       ELSE IF ~(base_value # nullopt /\ is_number(base_value)) THEN HardFail
       ELSE IF AsDoubleFails(base_value) \/ AsDoubleFails(self.operand) THEN HardFail
       ELSE FromDouble(FAdd(AsDouble(base_value), AsDouble(self.operand)))

NumericIncrementTransform_ApplyToRemoteDocument_AddAgain(self, previous_value, transform_result) ==
    NumericIncrementTransform_ApplyToLocalView(self, transform_result, 0)

NumericIncrementTransform_ApplyToRemoteDocument(self, previous_value, transform_result) ==
    transform_result

NumericIncrementTransform_Equals_ByNumericValue(self, other) ==
    IF other.type # self.type THEN FALSE
    ELSE AsDouble(self.operand) = AsDouble(other.operand)

NumericIncrementTransform_Equals(self, other) ==
    IF other.type # self.type THEN FALSE
    ELSE ValueEquals(self.operand, other.operand)

NumericIncrementTransform_Hash(self) ==
    ValueHash(self.operand)

\* ------------------------------------------------------------- virtual dispatch
RepApplyToLocalView(self, previous_value, local_write_time) ==
    CASE self.type = "ServerTimestamp" ->
           ServerTimestampTransform_ApplyToLocalView(self, previous_value, local_write_time)
      [] self.type = "Increment" ->
           NumericIncrementTransform_ApplyToLocalView(self, previous_value, local_write_time)
      [] IsArrayTransform(self.type) ->
           ArrayTransform_ApplyToLocalView(self, previous_value, local_write_time)

RepApplyToRemoteDocument(self, previous_value, transform_result) ==
    CASE self.type = "ServerTimestamp" ->
           ServerTimestampTransform_ApplyToRemoteDocument(self, previous_value, transform_result)
      [] self.type = "Increment" ->
           NumericIncrementTransform_ApplyToRemoteDocument(self, previous_value, transform_result)
      [] IsArrayTransform(self.type) ->
           ArrayTransform_ApplyToRemoteDocument(self, previous_value, transform_result)

RepComputeBaseValue(self, previous_value) ==
    CASE self.type = "ServerTimestamp" ->
           ServerTimestampTransform_ComputeBaseValue(self, previous_value)
      [] self.type = "Increment" ->
           NumericIncrementTransform_ComputeBaseValue(self, previous_value)
      [] IsArrayTransform(self.type) ->
           ArrayTransform_ComputeBaseValue(self, previous_value)

RepEquals(self, other) ==
    CASE self.type = "ServerTimestamp" -> ServerTimestampTransform_Equals(self, other)
      [] self.type = "Increment" -> NumericIncrementTransform_Equals(self, other)
      [] IsArrayTransform(self.type) -> ArrayTransform_Equals(self, other)

RepHash(self) ==
    CASE self.type = "ServerTimestamp" -> ServerTimestampTransform_Hash(self)
      [] self.type = "Increment" -> NumericIncrementTransform_Hash(self)
      [] IsArrayTransform(self.type) -> ArrayTransform_Hash(self)

\* operator==(const TransformOperation&, const TransformOperation&)
OperatorEquals(lhs, rhs) ==
    IF lhs.type = "Empty"
    THEN rhs.type = "Empty"
    ELSE rhs.type # "Empty" /\ RepEquals(lhs, rhs)

\* ------------------------------------------------------------- inputs
SeqUpTo(S, n) ==
    UNION {[1..k -> S] : k \in 0..n}

Ints ==
    LONG_MIN..LONG_MAX

\* Finite doubles, in halves: -1.5, 0.5, 2.0 and the largest finite double.
Doubles ==
    {-3, 1, 4, MaxFiniteH}

Numbers ==
    {FromInteger(i) : i \in Ints} \cup {FromDouble(h) : h \in Doubles}

\* Array elements: the integers 1 and 2 and the double 1.0.
Elements ==
    {FromInteger(1), FromInteger(2), FromDouble(2)}

Arrays ==
    {FromArray(s) : s \in SeqUpTo(Elements, MaxLen)}

NonNumbers ==
    {Null, V("Boolean", 1, <<>>), V("String", 5, <<>>), V("Timestamp", 1, <<>>)}

PreviousValues ==
    {nullopt} \cup NonNumbers \cup Numbers \cup Arrays

Times ==
    {1, 2}

TransformResults ==
    {Null, FromInteger(3), V("Timestamp", 2, <<>>)}

Transforms ==
    {EmptyShell, ServerTimestampTransform}
      \cup {NumericIncrementTransform(v) : v \in Numbers}
      \cup {ArrayTransform(t, s) : t \in {"ArrayUnion", "ArrayRemove"},
                                   s \in SeqUpTo(Elements, MaxLen)}

\* ------------------------------------------------------------- the state
VARIABLES op, other, previous_value, local_write_time, transform_result,
          ret, equal, hash, call, pass

vars ==
    <<op, other, previous_value, local_write_time, transform_result,
      ret, equal, hash, call, pass>>

Init ==
    /\ op \in Transforms
    /\ other = EmptyShell
    /\ previous_value = nullopt
    /\ local_write_time = 0
    /\ transform_result = nullopt
    /\ ret = nullopt
    /\ equal = FALSE
    /\ hash = 0
    /\ call = "none"
    /\ pass = 0

\* op.ApplyToLocalView(p, t); after the first pass the caller hands the value
\* it got back in as the next previous value.
ApplyToLocalView ==
    /\ op.type # "Empty"
    /\ call \in {"none", "ApplyToLocalView"}
    /\ pass < MaxPasses
    /\ ret # HardFail
    /\ \E p \in (IF pass = 0 THEN PreviousValues ELSE {ret}),
          t \in (IF pass = 0 THEN Times ELSE {local_write_time}) :
          /\ previous_value' = p
          /\ local_write_time' = t
          /\ ret' = RepApplyToLocalView(op, p, t)
    /\ call' = "ApplyToLocalView"
    /\ pass' = pass + 1
    /\ UNCHANGED <<op, other, transform_result, equal, hash>>

\* op.ApplyToRemoteDocument(p, r)
ApplyToRemoteDocument ==
    /\ op.type # "Empty"
    /\ call \in {"none", "ApplyToRemoteDocument"}
    /\ pass < MaxPasses
    /\ \E p \in (IF pass = 0 THEN PreviousValues ELSE {ret}),
          r \in (IF pass = 0 THEN TransformResults ELSE {transform_result}) :
          /\ previous_value' = p
          /\ transform_result' = r
          /\ ret' = RepApplyToRemoteDocument(op, p, r)
    /\ call' = "ApplyToRemoteDocument"
    /\ pass' = pass + 1
    /\ UNCHANGED <<op, other, local_write_time, equal, hash>>

\* op.ComputeBaseValue(p)
ComputeBaseValue ==
    /\ op.type # "Empty"
    /\ call = "none"
    /\ \E p \in PreviousValues :
          /\ previous_value' = p
          /\ ret' = RepComputeBaseValue(op, p)
    /\ call' = "ComputeBaseValue"
    /\ UNCHANGED <<op, other, local_write_time, transform_result, equal, hash, pass>>

\* op == b
Equals ==
    /\ call = "none"
    /\ \E b \in Transforms :
          /\ other' = b
          /\ equal' = OperatorEquals(op, b)
    /\ call' = "Equals"
    /\ UNCHANGED <<op, previous_value, local_write_time, transform_result,
                   ret, hash, pass>>

\* op.Hash()
Hash ==
    /\ op.type # "Empty"
    /\ call = "none"
    /\ hash' = RepHash(op)
    /\ call' = "Hash"
    /\ UNCHANGED <<op, other, previous_value, local_write_time, transform_result,
                   ret, equal, pass>>

Next ==
    \/ ApplyToLocalView
    \/ ApplyToRemoteDocument
    \/ ComputeBaseValue
    \/ Equals
    \/ Hash

Spec ==
    Init /\ [][Next]_vars

\* ------------------------------------------------------------- properties
Range(s) ==
    {s[i] : i \in 1..Len(s)}

\* The position of the first occurrence of x in E.
FirstIdx(E, x) ==
    CHOOSE k \in 1..Len(E) : E[k] = x /\ \A m \in 1..(k - 1) : E[m] # x

Applied ==
    call \in {"ApplyToLocalView", "ApplyToRemoteDocument"}

\* The array a previous value stands for: its elements if it is an array,
\* the empty array otherwise.
PArray ==
    IF previous_value.type = "Array" THEN previous_value.elems ELSE <<>>

\* C1: an ArrayUnion applied (locally or remotely) to a previous value standing
\* for P returns an array that starts with P unchanged, followed by the distinct
\* candidates that are not in P, each once, in the order of their first
\* occurrence among the candidates.
C1_UnionAppendsNewCandidatesOnce ==
    (Applied /\ op.type = "ArrayUnion") =>
        LET P == PArray
            E == op.elements
            R == ret.elems
            n == Len(P)
        IN /\ ret.type = "Array"
           /\ ret.n = 0
           /\ Len(R) >= n
           /\ SubSeq(R, 1, n) = P
           /\ LET S == SubSeq(R, n + 1, Len(R))
              IN /\ Range(S) = Range(E) \ Range(P)
                 /\ \A i, j \in 1..Len(S) : i # j => S[i] # S[j]
                 /\ \A i, j \in 1..Len(S) :
                        i < j => FirstIdx(E, S[i]) < FirstIdx(E, S[j])

\* C1 witness: ArrayUnion([1, 1, 2]) on [2, 2] returned [2, 2, 1].
C1_Witness ==
    /\ Applied
    /\ op = ArrayTransform("ArrayUnion",
                           <<FromInteger(1), FromInteger(1), FromInteger(2)>>)
    /\ previous_value = FromArray(<<FromInteger(2), FromInteger(2)>>)
    /\ ret = FromArray(<<FromInteger(2), FromInteger(2), FromInteger(1)>>)

\* C2: an ArrayRemove applied to a previous value standing for P returns exactly
\* the elements of P that equal no candidate, in P's order: every occurrence of
\* a candidate is gone and a candidate absent from P changes nothing.
C2_RemoveDropsEveryOccurrence ==
    (Applied /\ op.type = "ArrayRemove") =>
        ret = FromArray(SelectSeq(PArray, LAMBDA x : x \notin Range(op.elements)))

\* C2 witness: ArrayRemove([1]) on [1, 2, 1] returned [2].
C2_Witness ==
    /\ Applied
    /\ op = ArrayTransform("ArrayRemove", <<FromInteger(1)>>)
    /\ previous_value = FromArray(<<FromInteger(1), FromInteger(2), FromInteger(1)>>)
    /\ ret = FromArray(<<FromInteger(2)>>)

\* The exact sum clamped to the range of a signed integer.
Clamp(s) ==
    IF s > LONG_MAX THEN LONG_MAX ELSE IF s < LONG_MIN THEN LONG_MIN ELSE s

\* C3: ApplyToLocalView of an increment with an integer base x (the previous
\* value if it is an integer, 0 if it is no number) and an integer operand y
\* returns the integer x + y clamped to the signed range: never a wrapped sum.
C3_IntegerIncrementSaturates ==
    (/\ call = "ApplyToLocalView"
     /\ op.type = "Increment"
     /\ op.operand.type = "Integer"
     /\ previous_value.type # "Double") =>
        LET x == IF previous_value.type = "Integer" THEN previous_value.n ELSE 0
            y == op.operand.n
        IN ret = FromInteger(Clamp(x + y))

\* C3 witness: the largest integer incremented by 1 stayed the largest integer.
C3_Witness ==
    /\ call = "ApplyToLocalView"
    /\ op = NumericIncrementTransform(FromInteger(1))
    /\ previous_value = FromInteger(LONG_MAX)
    /\ ret = FromInteger(LONG_MAX)

\* A number as a double.
Promote(v) ==
    IF v.type = "Integer" THEN IntToDouble(v.n) ELSE v.n

\* C4: ApplyToLocalView of an increment returns an integer exactly when the
\* resolved base (the previous value if numeric, integer 0 otherwise) and the
\* operand are both integers; otherwise it returns the double sum of the two as
\* doubles, unclamped.  A previous value that is no number and an integer
\* operand n give the integer n; integer 2 incremented by 0.5 gives 2.5.
C4_IntegerOnlyIfBothIntegers ==
    (call = "ApplyToLocalView" /\ op.type = "Increment") =>
        LET base == IF previous_value.type \in {"Integer", "Double"}
                    THEN previous_value ELSE FromInteger(0)
            both == base.type = "Integer" /\ op.operand.type = "Integer"
        IN /\ ret.type \in {"Integer", "Double"}
           /\ (ret.type = "Integer") <=> both
           /\ ~both => ret = FromDouble(FAdd(Promote(base), Promote(op.operand)))
           /\ (previous_value.type \notin {"Integer", "Double"}
                 /\ op.operand.type = "Integer") => ret = op.operand
           /\ (previous_value = FromInteger(2) /\ op.operand = FromDouble(1))
                 => ret = FromDouble(5)

\* C4 witness: integer 2 incremented by the double 0.5 gave the double 2.5.
C4_Witness ==
    /\ call = "ApplyToLocalView"
    /\ op = NumericIncrementTransform(FromDouble(1))
    /\ previous_value = FromInteger(2)
    /\ ret = FromDouble(5)

\* C5: ComputeBaseValue returns nullopt for a server timestamp and for both
\* array transforms whatever the previous value; for an increment it never
\* returns nullopt: it returns the previous value when that is a number and
\* integer 0 otherwise.
C5_BaseValue ==
    (call = "ComputeBaseValue") =>
        /\ op.type \in {"ServerTimestamp", "ArrayUnion", "ArrayRemove"}
              => ret = nullopt
        /\ op.type = "Increment" =>
              /\ ret # nullopt
              /\ previous_value.type \in {"Integer", "Double"} => ret = previous_value
              /\ previous_value.type \notin {"Integer", "Double"} => ret = FromInteger(0)

\* C5 witness: the base of an increment over a string is integer 0.
C5_Witness ==
    /\ call = "ComputeBaseValue"
    /\ op.type = "Increment"
    /\ previous_value.type = "String"
    /\ ret = FromInteger(0)

\* C6: ApplyToRemoteDocument of a server timestamp or of an increment returns
\* the transform result it was given, whatever the previous value and operand.
C6_RemoteResultVerbatim ==
    (call = "ApplyToRemoteDocument" /\ op.type \in {"ServerTimestamp", "Increment"})
        => ret = transform_result

\* C6 witness: an increment by 1 over the previous value 1 returned the
\* server's 3, not 2 and not 4.
C6_Witness ==
    /\ call = "ApplyToRemoteDocument"
    /\ op = NumericIncrementTransform(FromInteger(1))
    /\ previous_value = FromInteger(1)
    /\ transform_result = FromInteger(3)
    /\ ret = FromInteger(3)

\* C7: an array transform applied to a previous value that is absent, null or
\* no array returns what it returns for the empty array: the distinct
\* candidates in first-occurrence order for a union, the empty array for a
\* removal.
C7_NonArrayCoercedToEmpty ==
    (Applied /\ IsArrayTransform(op.type) /\ previous_value.type # "Array") =>
        /\ ret = ArrayTransform_Apply(op, FromArray(<<>>))
        /\ op.type = "ArrayRemove" => ret = FromArray(<<>>)
        /\ op.type = "ArrayUnion" =>
              /\ ret.type = "Array"
              /\ Range(ret.elems) = Range(op.elements)
              /\ Len(ret.elems) = Cardinality(Range(op.elements))
              /\ \A i, j \in 1..Len(ret.elems) :
                     i < j => FirstIdx(op.elements, ret.elems[i])
                                < FirstIdx(op.elements, ret.elems[j])

\* C7 witness: ArrayUnion([1]) on the number 5 returned [1].
C7_Witness ==
    /\ Applied
    /\ op = ArrayTransform("ArrayUnion", <<FromInteger(1)>>)
    /\ previous_value = FromInteger(5)
    /\ ret = FromArray(<<FromInteger(1)>>)

\* b to the power k, modulo the size_t width.
RECURSIVE PowMod(_, _)
PowMod(b, k) ==
    IF k = 0 THEN 1 ELSE (b * PowMod(b, k - 1)) % (2 ^ SizeBits)

\* The sum of hs[i] * 31^(Len(hs) - i), modulo the size_t width.
RECURSIVE WeightedSum(_, _)
WeightedSum(hs, i) ==
    IF i > Len(hs) THEN 0
    ELSE ((hs[i] % (2 ^ SizeBits)) * PowMod(31, Len(hs) - i)
            + WeightedSum(hs, i + 1)) % (2 ^ SizeBits)

\* The hash the claim describes: 37, the operand's hash, or the mix
\* 31 * h + x started at 37 over the tag constant and the element hashes.
DescribedHash(t) ==
    CASE t.type = "ServerTimestamp" -> 37
      [] t.type = "Increment" -> ValueHash(t.operand)
      [] OTHER ->
           LET hs == <<37, IF t.type = "ArrayUnion" THEN 1231 ELSE 1237>>
                       \o [i \in 1..Len(t.elements) |-> ValueHash(t.elements[i])]
           IN WeightedSum(hs, 1)

\* C8: for constructed transforms a and b, a == a, (a == b) = (b == a), and
\* a == b implies Hash(a) = Hash(b); Hash is the hash the claim describes.
C8_EqualsReflexiveSymmetricHashConsistent ==
    /\ (call = "Equals" /\ op.type # "Empty" /\ other.type # "Empty") =>
          /\ OperatorEquals(op, op)
          /\ other = op => equal
          /\ equal = OperatorEquals(other, op)
          /\ equal => RepHash(op) = RepHash(other)
          /\ RepHash(other) = DescribedHash(other)
    /\ call = "Hash" => hash = DescribedHash(op)

\* C8 witness: two equal array transforms of several elements were compared.
C8_Witness ==
    /\ call = "Equals"
    /\ equal
    /\ IsArrayTransform(op.type)
    /\ Len(op.elements) >= 2
    /\ op.elements[1] # op.elements[2]

\* C9: two operations are equal exactly when they have the same tag and the
\* same payload: the same candidates in the same order, the same operand with
\* integer 2 and double 2.0 distinct; an empty shell equals only an empty shell.
C9_EqualityIsStructural ==
    (call = "Equals") =>
        /\ equal = (op = other)
        /\ op.type # other.type => ~equal
        /\ (op.type = "ServerTimestamp" /\ other.type = "ServerTimestamp") => equal
        /\ (op.type = "Empty") => (equal = (other.type = "Empty"))

\* C9 witness: an increment by integer 2 compared unequal to one by double 2.0.
C9_Witness ==
    /\ call = "Equals"
    /\ op = NumericIncrementTransform(FromInteger(2))
    /\ other = NumericIncrementTransform(FromDouble(4))
    /\ ~equal

\* C10: an array transform applied to its own result returns that result
\* again; after a union every candidate is in the result and after a removal
\* none is.
C10_ArrayTransformsIdempotent ==
    (Applied /\ IsArrayTransform(op.type)) =>
        /\ pass >= 2 => ret = previous_value
        /\ ArrayTransform_Apply(op, ret) = ret
        /\ op.type = "ArrayUnion" => Range(op.elements) \subseteq Range(ret.elems)
        /\ op.type = "ArrayRemove" => Range(op.elements) \cap Range(ret.elems) = {}

\* C10 witness: a removal was applied a second time, to a result that still
\* held elements, and changed nothing.
C10_Witness ==
    /\ Applied
    /\ pass = 2
    /\ op.type = "ArrayRemove"
    /\ op.elements # <<>>
    /\ ret.elems # <<>>
    /\ ret = previous_value

====
